---------------------------- MODULE Spec2Model ----------------------------
(***************************************************************************)
(* dd-sdk-go-testing: the test lifecycle tracker (init.go) and the CI      *)
(* provider tag engine (internal/utils/ci_providers.go).                   *)
(*                                                                         *)
(* Strings of the program are modelled as sequences of tokens: <<>> is the *)
(* empty string and \o is concatenation.  A "/" of an environment value is *)
(* always a token of its own, so that the regular expressions and the      *)
(* substring tests of the code are decided on the token sequence.          *)
(***************************************************************************)
EXTENDS Integers, Sequences, FiniteSets, TLC

VARIABLES
    unit,     \* per test unit: position, testing.TB state, span, calls made
    sink,     \* the process-wide tracer: calls received so far
    mainpc,   \* position of the goroutine that called Run
    sigpc,    \* position of the signal-listener goroutine of Run
    proc,     \* "alive" | "exited" | "crashed"
    env,      \* process environment: variable name -> value, absent = unset
    gpc,      \* position of GetProviderTags: "start" | "done" | "panicked"
    raw,      \* the tag mapping that left the provider loop
    result,   \* the tag mapping GetProviderTags returned
    refIn,    \* argument handed to normalizeRef
    refOut,   \* <<normalizeRef(refIn), normalizeRef(normalizeRef(refIn))>>
    urlIn,    \* repository URL handed to filterSensitiveInfo, in its parts
    urlOut,   \* <<filterSensitiveInfo(urlIn)>> once it has returned
    normIn,   \* tag mapping handed to normalizeTags
    normOut   \* <<the mapping normalizeTags left>> once it has returned

lifeVars == <<unit, sink, mainpc, sigpc, proc>>
tagVars  == <<env, gpc, raw, result>>
refVars  == <<refIn, refOut, urlIn, urlOut, normIn, normOut>>
vars     == <<unit, sink, mainpc, sigpc, proc, env, gpc, raw, result, refIn, refOut,
              urlIn, urlOut, normIn, normOut>>

\* ------------------------------------------------------------------ bounds
MaxUnits  == 2    \* test units the suite runs
MaxEnv    == 3    \* environment variables that are set
MaxPrefix == 3    \* prefix tokens in front of a reference name
MaxSegs   == 2    \* path segments of a repository URL

Units == 1..MaxUnits

\* ------------------------------------------------------- string utilities
Str(s) == <<s>>

StartsWith(s, p) == Len(s) >= Len(p) /\ SubSeq(s, 1, Len(p)) = p

Drop(s, n) == SubSeq(s, n + 1, Len(s))

\* m[k] = v on a Go map
Put(m, k, v) == (k :> v) @@ m

\* The empty map.
NoTags == [x \in {} |-> <<>>]

\* strings.Contains
Contains(s, p) ==
    \E i \in 1..(Len(s) - Len(p) + 1) : SubSeq(s, i, i + Len(p) - 1) = p


\* --------------------------------------------- ci_providers.go: environment
\* os.Getenv: an unset variable reads as the empty string.
Getenv(k) == IF k \in DOMAIN env THEN env[k] ELSE <<>>

\* os.LookupEnv, second result.
LookupEnv(k) == k \in DOMAIN env

RECURSIVE firstEnv(_)
firstEnv(keys) ==
    IF keys = <<>> THEN <<>>
    ELSE IF LookupEnv(Head(keys)) /\ env[Head(keys)] # <<>> THEN env[Head(keys)]
    ELSE firstEnv(Tail(keys))

getEnvironmentVariableIfIsNotEmpty(key, defaultValue) ==
    IF LookupEnv(key) /\ env[key] # <<>> THEN env[key] ELSE defaultValue

\* ------------------------------------------ ci_providers.go: normalization
\* regexp ^refs/(heads/)? , ^origin/ , ^tags/ , each replaced by "" once.
StripRefs(s) ==
    IF StartsWith(s, <<"refs", "/">>)
    THEN (IF StartsWith(Drop(s, 2), <<"heads", "/">>) THEN Drop(s, 4) ELSE Drop(s, 2))
    ELSE s

StripOrigin(s) == IF StartsWith(s, <<"origin", "/">>) THEN Drop(s, 2) ELSE s

StripTags(s) == IF StartsWith(s, <<"tags", "/">>) THEN Drop(s, 2) ELSE s

normalizeRef(name) == StripTags(StripOrigin(StripRefs(name)))

\* Tokens that hold a "/": the regexp class [^/] rejects them.
Schemes == {"https://", "http://"}
HasSlash(t) == t = "/" \/ t \in Schemes

\* Length of the longest prefix of s without a "/".
RECURSIVE NoSlashRun(_)
NoSlashRun(s) ==
    IF s = <<>> \/ HasSlash(Head(s)) THEN 0 ELSE 1 + NoSlashRun(Tail(s))

\* Index of the last "@" among the first n tokens of s, 0 when there is none.
LastAt(s, n) ==
    LET at == {i \in 1..n : s[i] = "@"}
    IN IF at = {} THEN 0 ELSE CHOOSE i \in at : \A j \in at : j <= i

\* regexp (https?://)[^/]*@ replaced by $1, every match, leftmost first.
RECURSIVE filterSensitiveInfo(_)
filterSensitiveInfo(url) ==
    IF url = <<>> THEN <<>>
    ELSE IF Head(url) \in Schemes
         THEN LET rest == Tail(url)
                  k == LastAt(rest, NoSlashRun(rest))
              IN <<Head(url)>> \o filterSensitiveInfo(Drop(rest, k))
         ELSE <<Head(url)>> \o filterSensitiveInfo(Tail(url))

\* Tag keys (internal/constants).
CIProviderName   == "ci.provider.name"
GitRepositoryURL == "git.repository_url"
GitCommitSHA     == "git.commit.sha"
GitBranch        == "git.branch"
GitTag           == "git.tag"
CIWorkspacePath  == "ci.workspace_path"
CIPipelineID     == "ci.pipeline.id"
CIPipelineName   == "ci.pipeline.name"
CIPipelineNumber == "ci.pipeline.number"
CIPipelineURL    == "ci.pipeline.url"
CIJobURL         == "ci.job.url"
CIJobName        == "ci.job.name"
CIStageName      == "ci.stage.name"
CIEnvVars        == "_dd.ci.env_vars"
GitCommitMessage        == "git.commit.message"
GitCommitAuthorName     == "git.commit.author.name"
GitCommitAuthorEmail    == "git.commit.author.email"
GitCommitAuthorDate     == "git.commit.author.date"
GitCommitCommitterName  == "git.commit.committer.name"
GitCommitCommitterEmail == "git.commit.committer.email"
GitCommitCommitterDate  == "git.commit.committer.date"

\* tags[k] of a Go map: the empty string when k is absent.
TagOf(tags, k) == IF k \in DOMAIN tags THEN tags[k] ELSE <<>>

IsTagRef(tag) ==
    \/ Contains(tag, <<"refs", "/", "tags">>)
    \/ Contains(tag, <<"origin", "/", "tags">>)
    \/ Contains(tag, <<"refs", "/", "heads", "/", "tags">>)

normalizeBranch(tags) ==
    IF GitBranch \in DOMAIN tags /\ tags[GitBranch] # <<>>
    THEN LET tag == tags[GitBranch]
             t1 == IF IsTagRef(tag) THEN Put(tags, GitTag, normalizeRef(tag)) ELSE tags
         IN Put(t1, GitBranch, normalizeRef(tag))
    ELSE tags

normalizeTag(tags) ==
    IF GitTag \in DOMAIN tags /\ tags[GitTag] # <<>>
    THEN Put(tags, GitTag, normalizeRef(tags[GitTag]))
    ELSE tags

normalizeURL(tags) ==
    IF GitRepositoryURL \in DOMAIN tags /\ tags[GitRepositoryURL] # <<>>
    THEN Put(tags, GitRepositoryURL, filterSensitiveInfo(tags[GitRepositoryURL]))
    ELSE tags

normalizeTags(tags) == normalizeURL(normalizeTag(normalizeBranch(tags)))

\* The (tag, override variable) pairs, in the order of the replace calls.
UserTags ==
    << <<GitBranch, "DD_GIT_BRANCH">>,
       <<GitTag, "DD_GIT_TAG">>,
       <<GitRepositoryURL, "DD_GIT_REPOSITORY_URL">>,
       <<GitCommitSHA, "DD_GIT_COMMIT_SHA">>,
       <<GitCommitMessage, "DD_GIT_COMMIT_MESSAGE">>,
       <<GitCommitAuthorName, "DD_GIT_COMMIT_AUTHOR_NAME">>,
       <<GitCommitAuthorEmail, "DD_GIT_COMMIT_AUTHOR_EMAIL">>,
       <<GitCommitAuthorDate, "DD_GIT_COMMIT_AUTHOR_DATE">>,
       <<GitCommitCommitterName, "DD_GIT_COMMIT_COMMITTER_NAME">>,
       <<GitCommitCommitterEmail, "DD_GIT_COMMIT_COMMITTER_EMAIL">>,
       <<GitCommitCommitterDate, "DD_GIT_COMMIT_COMMITTER_DATE">> >>

\* replace(tagName, envName): the key is written even when nothing is set.
\* replace that keeps a value the extractor supplied.
replaceIfMissing(tags, tagName, envName) ==
    IF TagOf(tags, tagName) # <<>> THEN tags
    ELSE Put(tags, tagName, getEnvironmentVariableIfIsNotEmpty(envName, <<>>))

replace(tags, tagName, envName) ==
    Put(tags, tagName, getEnvironmentVariableIfIsNotEmpty(envName, TagOf(tags, tagName)))

RECURSIVE replaceAll(_, _)
replaceAll(tags, pairs) ==
    IF pairs = <<>> THEN tags
    ELSE replaceAll(replace(tags, Head(pairs)[1], Head(pairs)[2]), Tail(pairs))

replaceWithUserSpecificTags(tags) == replaceAll(tags, UserTags)

\* removeEmpty that deletes nothing.
removeEmptyKeepsAll(tags) == tags

removeEmpty(tags) == [k \in {x \in DOMAIN tags : tags[x] # <<>>} |-> tags[k]]

\* filepath.Join(dir, rest): a trailing separator is cleaned away.
JoinHome(dir, rest) ==
    LET p == dir \o rest
    IN IF Len(p) > 1 /\ p[Len(p)] = "/" THEN SubSeq(p, 1, Len(p) - 1) ELSE p

\* homedir.Expand(path) for the home directory home, <<>> when it cannot be
\* found: the result and whether err == nil.
Expand(path, home) ==
    IF path = <<>> \/ Head(path) # "~" THEN [ok |-> TRUE, value |-> path]
    ELSE IF Len(path) > 1 /\ path[2] \notin {"/", "\\"} THEN [ok |-> FALSE, value |-> <<>>]
    ELSE IF home = <<>> THEN [ok |-> FALSE, value |-> <<>>]
    ELSE [ok |-> TRUE, value |-> JoinHome(home, Tail(path))]

expandWorkspace(tags, home) ==
    IF CIWorkspacePath \in DOMAIN tags /\ tags[CIWorkspacePath] # <<>>
    THEN LET e == Expand(tags[CIWorkspacePath], home)
         IN IF e.ok THEN Put(tags, CIWorkspacePath, e.value) ELSE tags
    ELSE tags


\* ---------------------------------------------- ci_providers.go: extractors
\* regexp.ReplaceAll / strings.ReplaceAll of the literal pat (not empty) by rep.
RECURSIVE ReplaceAllSeq(_, _, _)
ReplaceAllSeq(s, pat, rep) ==
    IF s = <<>> THEN <<>>
    ELSE IF StartsWith(s, pat) THEN rep \o ReplaceAllSeq(Drop(s, Len(pat)), pat, rep)
    ELSE <<Head(s)>> \o ReplaceAllSeq(Tail(s), pat, rep)

\* strings.Trim(s, cutset) and strings.TrimSpace, on tokens.
RECURSIVE TrimLeft(_, _)
TrimLeft(s, cut) ==
    IF s # <<>> /\ Head(s) \in cut THEN TrimLeft(Tail(s), cut) ELSE s

RECURSIVE TrimRight(_, _)
TrimRight(s, cut) ==
    IF s # <<>> /\ s[Len(s)] \in cut THEN TrimRight(SubSeq(s, 1, Len(s) - 1), cut) ELSE s

Trim(s, cut) == TrimRight(TrimLeft(s, cut), cut)

TrimSpace(s) == Trim(s, {" "})

TrimSuffix(s, suffix) ==
    IF Len(s) >= Len(suffix) /\ SubSeq(s, Len(s) - Len(suffix) + 1, Len(s)) = suffix
    THEN SubSeq(s, 1, Len(s) - Len(suffix))
    ELSE s

\* strings.FieldsFunc(s, f) with f true of the tokens of seps: the maximal
\* runs of other tokens.
RECURSIVE FieldsFunc(_, _)
FieldsFunc(s, seps) ==
    LET t == TrimLeft(s, seps)
        RECURSIVE Run(_)
        Run(x) == IF x = <<>> \/ Head(x) \in seps THEN 0 ELSE 1 + Run(Tail(x))
        n == Run(t)
    IN IF t = <<>> THEN <<>>
       ELSE <<SubSeq(t, 1, n)>> \o FieldsFunc(Drop(t, n), seps)

\* json.Marshal of a map[string]string after removeEmpty; pairs come in the
\* key order json.Marshal writes.
RECURSIVE JsonFields(_, _)
JsonFields(pairs, first) ==
    IF pairs = <<>> THEN <<>>
    ELSE IF Head(pairs)[2] = <<>> THEN JsonFields(Tail(pairs), first)
    ELSE (IF first THEN <<>> ELSE <<",">>)
         \o <<"\"", Head(pairs)[1], "\":\"">> \o Head(pairs)[2] \o <<"\"">>
         \o JsonFields(Tail(pairs), FALSE)

Json(pairs) == <<"{">> \o JsonFields(pairs, TRUE) \o <<"}">>

EnvPair(k) == <<k, Getenv(k)>>

Ok(tags) == [ok |-> TRUE, tags |-> tags]
Fault    == [ok |-> FALSE, tags |-> NoTags]

HasTagsSlash(ref) == Contains(ref, <<"tags", "/">>)

extractAppveyor ==
    LET url == <<"https://", "ci.appveyor.com/project/">> \o Getenv("APPVEYOR_REPO_NAME")
               \o <<"/builds/">> \o Getenv("APPVEYOR_BUILD_ID")
    IN Ok(
        CIProviderName :> <<"appveyor">>
     @@ GitRepositoryURL :>
            (IF Getenv("APPVEYOR_REPO_PROVIDER") = <<"github">>
             THEN <<"https://", "github.com", "/">> \o Getenv("APPVEYOR_REPO_NAME") \o <<".git">>
             ELSE Getenv("APPVEYOR_REPO_NAME"))
     @@ GitCommitSHA :> Getenv("APPVEYOR_REPO_COMMIT")
     @@ GitBranch :> firstEnv(<<"APPVEYOR_PULL_REQUEST_HEAD_REPO_BRANCH", "APPVEYOR_REPO_BRANCH">>)
     @@ GitTag :> Getenv("APPVEYOR_REPO_TAG_NAME")
     @@ CIWorkspacePath :> Getenv("APPVEYOR_BUILD_FOLDER")
     @@ CIPipelineID :> Getenv("APPVEYOR_BUILD_ID")
     @@ CIPipelineName :> Getenv("APPVEYOR_REPO_NAME")
     @@ CIPipelineNumber :> Getenv("APPVEYOR_BUILD_NUMBER")
     @@ CIPipelineURL :> url
     @@ CIJobURL :> url
     @@ GitCommitMessage :>
            Getenv("APPVEYOR_REPO_COMMIT_MESSAGE") \o <<"\n">>
            \o Getenv("APPVEYOR_REPO_COMMIT_MESSAGE_EXTENDED")
     @@ GitCommitAuthorName :> Getenv("APPVEYOR_REPO_COMMIT_AUTHOR")
     @@ GitCommitAuthorEmail :> Getenv("APPVEYOR_REPO_COMMIT_AUTHOR_EMAIL"))

extractAzurePipelines ==
    LET baseURL == Getenv("SYSTEM_TEAMFOUNDATIONSERVERURI") \o Getenv("SYSTEM_TEAMPROJECTID")
                   \o <<"/_build/results?buildId=">> \o Getenv("BUILD_BUILDID")
        jobURL == baseURL \o <<"&view=logs&j=">> \o Getenv("SYSTEM_JOBID")
                  \o <<"&t=">> \o Getenv("SYSTEM_TASKINSTANCEID")
        branchOrTag == firstEnv(<<"SYSTEM_PULLREQUEST_SOURCEBRANCH", "BUILD_SOURCEBRANCH",
                                  "BUILD_SOURCEBRANCHNAME">>)
        isTag == HasTagsSlash(branchOrTag)
    IN Ok(
        CIProviderName :> <<"azurepipelines">>
     @@ CIWorkspacePath :> Getenv("BUILD_SOURCESDIRECTORY")
     @@ CIPipelineID :> Getenv("BUILD_BUILDID")
     @@ CIPipelineName :> Getenv("BUILD_DEFINITIONNAME")
     @@ CIPipelineNumber :> Getenv("BUILD_BUILDID")
     @@ CIPipelineURL :> baseURL
     @@ CIStageName :> Getenv("SYSTEM_STAGEDISPLAYNAME")
     @@ CIJobName :> Getenv("SYSTEM_JOBDISPLAYNAME")
     @@ CIJobURL :> jobURL
     @@ GitRepositoryURL :>
            firstEnv(<<"SYSTEM_PULLREQUEST_SOURCEREPOSITORYURI", "BUILD_REPOSITORY_URI">>)
     @@ GitCommitSHA :> firstEnv(<<"SYSTEM_PULLREQUEST_SOURCECOMMITID", "BUILD_SOURCEVERSION">>)
     @@ GitBranch :> (IF isTag THEN <<>> ELSE branchOrTag)
     @@ GitTag :> (IF isTag THEN branchOrTag ELSE <<>>)
     @@ GitCommitMessage :> Getenv("BUILD_SOURCEVERSIONMESSAGE")
     @@ GitCommitAuthorName :> Getenv("BUILD_REQUESTEDFORID")
     @@ GitCommitAuthorEmail :> Getenv("BUILD_REQUESTEDFOREMAIL")
     @@ CIEnvVars :> Json(<<EnvPair("BUILD_BUILDID"), EnvPair("SYSTEM_JOBID"),
                            EnvPair("SYSTEM_TEAMPROJECTID")>>))

extractBitrise ==
    Ok( CIProviderName :> <<"bitrise">>
     @@ GitRepositoryURL :> Getenv("GIT_REPOSITORY_URL")
     @@ GitCommitSHA :> firstEnv(<<"BITRISE_GIT_COMMIT", "GIT_CLONE_COMMIT_HASH">>)
     @@ GitBranch :> firstEnv(<<"BITRISEIO_GIT_BRANCH_DEST", "BITRISE_GIT_BRANCH">>)
     @@ GitTag :> Getenv("BITRISE_GIT_TAG")
     @@ CIWorkspacePath :> Getenv("BITRISE_SOURCE_DIR")
     @@ CIPipelineID :> Getenv("BITRISE_BUILD_SLUG")
     @@ CIPipelineName :> Getenv("BITRISE_TRIGGERED_WORKFLOW_ID")
     @@ CIPipelineNumber :> Getenv("BITRISE_BUILD_NUMBER")
     @@ CIPipelineURL :> Getenv("BITRISE_BUILD_URL")
     @@ GitCommitMessage :> Getenv("BITRISE_GIT_MESSAGE"))

extractBitbucket ==
    LET url == <<"https://", "bitbucket.org/">> \o Getenv("BITBUCKET_REPO_FULL_NAME")
               \o <<"/addon/pipelines/home#!/results/">> \o Getenv("BITBUCKET_BUILD_NUMBER")
    IN Ok(
        CIProviderName :> <<"bitbucket">>
     @@ GitRepositoryURL :> Getenv("BITBUCKET_GIT_SSH_ORIGIN")
     @@ GitCommitSHA :> Getenv("BITBUCKET_COMMIT")
     @@ GitBranch :> Getenv("BITBUCKET_BRANCH")
     @@ GitTag :> Getenv("BITBUCKET_TAG")
     @@ CIWorkspacePath :> Getenv("BITBUCKET_CLONE_DIR")
     @@ CIPipelineID :> Trim(Getenv("BITBUCKET_PIPELINE_UUID"), {"{", "}"})
     @@ CIPipelineNumber :> Getenv("BITBUCKET_BUILD_NUMBER")
     @@ CIPipelineName :> Getenv("BITBUCKET_REPO_FULL_NAME")
     @@ CIPipelineURL :> url
     @@ CIJobURL :> url)

extractBuddy ==
    Ok( CIProviderName :> <<"buddy">>
     @@ CIPipelineID :> Getenv("BUDDY_PIPELINE_ID") \o <<"/">> \o Getenv("BUDDY_EXECUTION_ID")
     @@ CIPipelineName :> Getenv("BUDDY_PIPELINE_NAME")
     @@ CIPipelineNumber :> Getenv("BUDDY_EXECUTION_ID")
     @@ CIPipelineURL :> Getenv("BUDDY_EXECUTION_URL")
     @@ GitCommitSHA :> Getenv("BUDDY_EXECUTION_REVISION")
     @@ GitRepositoryURL :> Getenv("BUDDY_SCM_URL")
     @@ GitBranch :> Getenv("BUDDY_EXECUTION_BRANCH")
     @@ GitTag :> Getenv("BUDDY_EXECUTION_TAG")
     @@ GitCommitMessage :> Getenv("BUDDY_EXECUTION_REVISION_MESSAGE")
     @@ GitCommitCommitterName :> Getenv("BUDDY_EXECUTION_REVISION_COMMITTER_NAME")
     @@ GitCommitCommitterEmail :> Getenv("BUDDY_EXECUTION_REVISION_COMMITTER_EMAIL"))

extractBuildkite ==
    Ok( GitBranch :> Getenv("BUILDKITE_BRANCH")
     @@ GitCommitSHA :> Getenv("BUILDKITE_COMMIT")
     @@ GitRepositoryURL :> Getenv("BUILDKITE_REPO")
     @@ GitTag :> Getenv("BUILDKITE_TAG")
     @@ CIPipelineID :> Getenv("BUILDKITE_BUILD_ID")
     @@ CIPipelineName :> Getenv("BUILDKITE_PIPELINE_SLUG")
     @@ CIPipelineNumber :> Getenv("BUILDKITE_BUILD_NUMBER")
     @@ CIPipelineURL :> Getenv("BUILDKITE_BUILD_URL")
     @@ CIJobURL :> Getenv("BUILDKITE_BUILD_URL") \o <<"#">> \o Getenv("BUILDKITE_JOB_ID")
     @@ CIProviderName :> <<"buildkite">>
     @@ CIWorkspacePath :> Getenv("BUILDKITE_BUILD_CHECKOUT_PATH")
     @@ GitCommitMessage :> Getenv("BUILDKITE_MESSAGE")
     @@ GitCommitAuthorName :> Getenv("BUILDKITE_BUILD_AUTHOR")
     @@ GitCommitAuthorEmail :> Getenv("BUILDKITE_BUILD_AUTHOR_EMAIL")
     @@ CIEnvVars :> Json(<<EnvPair("BUILDKITE_BUILD_ID"), EnvPair("BUILDKITE_JOB_ID")>>))

extractCircleCI ==
    Ok( CIProviderName :> <<"circleci">>
     @@ GitRepositoryURL :> Getenv("CIRCLE_REPOSITORY_URL")
     @@ GitCommitSHA :> Getenv("CIRCLE_SHA1")
     @@ GitTag :> Getenv("CIRCLE_TAG")
     @@ GitBranch :> Getenv("CIRCLE_BRANCH")
     @@ CIWorkspacePath :> Getenv("CIRCLE_WORKING_DIRECTORY")
     @@ CIPipelineID :> Getenv("CIRCLE_WORKFLOW_ID")
     @@ CIPipelineName :> Getenv("CIRCLE_PROJECT_REPONAME")
     @@ CIPipelineNumber :> Getenv("CIRCLE_BUILD_NUM")
     @@ CIPipelineURL :>
            <<"https://", "app.circleci.com/pipelines/workflows/">> \o Getenv("CIRCLE_WORKFLOW_ID")
     @@ CIJobName :> Getenv("CIRCLE_JOB")
     @@ CIJobURL :> Getenv("CIRCLE_BUILD_URL")
     @@ CIEnvVars :> Json(<<EnvPair("CIRCLE_BUILD_NUM"), EnvPair("CIRCLE_WORKFLOW_ID")>>))

extractGithubActions ==
    LET branchOrTag == firstEnv(<<"GITHUB_HEAD_REF", "GITHUB_REF">>)
        isTag == HasTagsSlash(branchOrTag)
        serverUrl == TrimSuffix(IF Getenv("GITHUB_SERVER_URL") = <<>>
                                THEN <<"https://", "github.com">>
                                ELSE Getenv("GITHUB_SERVER_URL"), <<"/">>)
        rawRepository == serverUrl \o <<"/">> \o Getenv("GITHUB_REPOSITORY")
        pipelineId == Getenv("GITHUB_RUN_ID")
        commitSha == Getenv("GITHUB_SHA")
        attempts == Getenv("GITHUB_RUN_ATTEMPT")
    IN Ok(
        CIProviderName :> <<"github">>
     @@ GitRepositoryURL :> rawRepository \o <<".git">>
     @@ GitCommitSHA :> commitSha
     @@ GitBranch :> (IF isTag THEN <<>> ELSE branchOrTag)
     @@ GitTag :> (IF isTag THEN branchOrTag ELSE <<>>)
     @@ CIWorkspacePath :> Getenv("GITHUB_WORKSPACE")
     @@ CIPipelineID :> pipelineId
     @@ CIPipelineNumber :> Getenv("GITHUB_RUN_NUMBER")
     @@ CIPipelineName :> Getenv("GITHUB_WORKFLOW")
     @@ CIJobURL :> rawRepository \o <<"/commit/">> \o commitSha \o <<"/checks">>
     @@ CIJobName :> Getenv("GITHUB_JOB")
     @@ CIPipelineURL :>
            (IF attempts = <<>>
             THEN rawRepository \o <<"/actions/runs/">> \o pipelineId
             ELSE rawRepository \o <<"/actions/runs/">> \o pipelineId
                  \o <<"/attempts/">> \o attempts)
     @@ CIEnvVars :> Json(<<EnvPair("GITHUB_REPOSITORY"), EnvPair("GITHUB_RUN_ATTEMPT"),
                            EnvPair("GITHUB_RUN_ID"), EnvPair("GITHUB_SERVER_URL")>>))

extractGitlab ==
    LET url == ReplaceAllSeq(Getenv("CI_PIPELINE_URL"),
                             <<"/", "-", "/", "pipelines", "/">>, <<"/", "pipelines", "/">>)
        authorArray == FieldsFunc(Getenv("CI_COMMIT_AUTHOR"), {"<", ">"})
    IN \* authorArray[0] and authorArray[1] are read unconditionally
       IF Len(authorArray) < 2 THEN Fault
       ELSE Ok(
        CIProviderName :> <<"gitlab">>
     @@ GitRepositoryURL :> Getenv("CI_REPOSITORY_URL")
     @@ GitCommitSHA :> Getenv("CI_COMMIT_SHA")
     @@ GitBranch :> firstEnv(<<"CI_COMMIT_BRANCH", "CI_COMMIT_REF_NAME">>)
     @@ GitTag :> Getenv("CI_COMMIT_TAG")
     @@ CIWorkspacePath :> Getenv("CI_PROJECT_DIR")
     @@ CIPipelineID :> Getenv("CI_PIPELINE_ID")
     @@ CIPipelineName :> Getenv("CI_PROJECT_PATH")
     @@ CIPipelineNumber :> Getenv("CI_PIPELINE_IID")
     @@ CIPipelineURL :> url
     @@ CIJobURL :> Getenv("CI_JOB_URL")
     @@ CIJobName :> Getenv("CI_JOB_NAME")
     @@ CIStageName :> Getenv("CI_JOB_STAGE")
     @@ GitCommitMessage :> Getenv("CI_COMMIT_MESSAGE")
     @@ GitCommitAuthorName :> TrimSpace(authorArray[1])
     @@ GitCommitAuthorEmail :> TrimSpace(authorArray[2])
     @@ GitCommitAuthorDate :> Getenv("CI_COMMIT_TIMESTAMP")
     @@ CIEnvVars :> Json(<<EnvPair("CI_JOB_ID"), EnvPair("CI_PIPELINE_ID"),
                            EnvPair("CI_PROJECT_URL")>>))

\* regexp /[^/]+=[^/]* replaced by "": a "/" and the run of tokens without
\* "/" after it, when an "=" follows at least one token of the run.
RECURSIVE removeVars(_)
removeVars(s) ==
    IF s = <<>> THEN <<>>
    ELSE IF Head(s) = "/"
         THEN LET rest == Tail(s)
                  n == NoSlashRun(rest)
              IN IF \E i \in 2..n : rest[i] = "="
                 THEN removeVars(Drop(rest, n))
                 ELSE <<"/">> \o removeVars(rest)
         ELSE <<Head(s)>> \o removeVars(Tail(s))

extractJenkins ==
    LET branchOrTag == Getenv("GIT_BRANCH")
        isTag == HasTagsSlash(branchOrTag)
        name0 == Getenv("JOB_NAME")
        \* the branch is cut out of the job name
        name1 == IF isTag THEN name0
                 ELSE ReplaceAllSeq(name0, <<"/">> \o normalizeRef(branchOrTag), <<>>)
        name == IF LookupEnv("JOB_NAME") THEN removeVars(name1) ELSE name1
    IN Ok(
        (IF isTag THEN GitTag :> branchOrTag ELSE GitBranch :> branchOrTag)
     @@ CIProviderName :> <<"jenkins">>
     @@ GitRepositoryURL :> firstEnv(<<"GIT_URL", "GIT_URL_1">>)
     @@ GitCommitSHA :> Getenv("GIT_COMMIT")
     @@ CIWorkspacePath :> Getenv("WORKSPACE")
     @@ CIPipelineID :> Getenv("BUILD_TAG")
     @@ CIPipelineNumber :> Getenv("BUILD_NUMBER")
     @@ CIPipelineName :> name
     @@ CIPipelineURL :> Getenv("BUILD_URL")
     @@ CIEnvVars :> Json(<<EnvPair("DD_CUSTOM_TRACE_ID")>>))

extractTeamcity ==
    Ok( CIProviderName :> <<"teamcity">>
     @@ GitRepositoryURL :> Getenv("BUILD_VCS_URL")
     @@ GitCommitSHA :> Getenv("BUILD_VCS_NUMBER")
     @@ CIWorkspacePath :> Getenv("BUILD_CHECKOUTDIR")
     @@ CIPipelineID :> Getenv("BUILD_ID")
     @@ CIPipelineNumber :> Getenv("BUILD_NUMBER")
     @@ CIPipelineURL :> Getenv("SERVER_URL") \o <<"/viewLog.html?buildId=">> \o Getenv("BUILD_ID"))

extractTravis ==
    LET prSlug == Getenv("TRAVIS_PULL_REQUEST_SLUG")
        repoSlug == IF TrimSpace(prSlug) = <<>> THEN Getenv("TRAVIS_REPO_SLUG") ELSE prSlug
    IN Ok(
        CIProviderName :> <<"travisci">>
     @@ GitRepositoryURL :> <<"https://", "github.com", "/">> \o repoSlug \o <<".git">>
     @@ GitCommitSHA :> Getenv("TRAVIS_COMMIT")
     @@ GitTag :> Getenv("TRAVIS_TAG")
     @@ GitBranch :> firstEnv(<<"TRAVIS_PULL_REQUEST_BRANCH", "TRAVIS_BRANCH">>)
     @@ CIWorkspacePath :> Getenv("TRAVIS_BUILD_DIR")
     @@ CIPipelineID :> Getenv("TRAVIS_BUILD_ID")
     @@ CIPipelineNumber :> Getenv("TRAVIS_BUILD_NUMBER")
     @@ CIPipelineName :> repoSlug
     @@ CIPipelineURL :> Getenv("TRAVIS_BUILD_WEB_URL")
     @@ CIJobURL :> Getenv("TRAVIS_JOB_WEB_URL")
     @@ GitCommitMessage :> Getenv("TRAVIS_COMMIT_MESSAGE"))

\* The registry: trigger variable -> extractor.
Triggers ==
    {"APPVEYOR", "TF_BUILD", "BITBUCKET_COMMIT", "BUDDY", "BUILDKITE", "CIRCLECI",
     "GITHUB_SHA", "GITLAB_CI", "JENKINS_URL", "TEAMCITY_VERSION", "TRAVIS",
     "BITRISE_BUILD_SLUG"}

providers(key) ==
    CASE key = "APPVEYOR" -> extractAppveyor
      [] key = "TF_BUILD" -> extractAzurePipelines
      [] key = "BITBUCKET_COMMIT" -> extractBitbucket
      [] key = "BUDDY" -> extractBuddy
      [] key = "BUILDKITE" -> extractBuildkite
      [] key = "CIRCLECI" -> extractCircleCI
      [] key = "GITHUB_SHA" -> extractGithubActions
      [] key = "GITLAB_CI" -> extractGitlab
      [] key = "JENKINS_URL" -> extractJenkins
      [] key = "TEAMCITY_VERSION" -> extractTeamcity
      [] key = "TRAVIS" -> extractTravis
      [] key = "BITRISE_BUILD_SLUG" -> extractBitrise

\* The variables each extractor reads.
Reads(key) ==
    CASE key = "APPVEYOR" ->
        {"APPVEYOR_REPO_NAME", "APPVEYOR_BUILD_ID", "APPVEYOR_REPO_PROVIDER",
         "APPVEYOR_REPO_COMMIT", "APPVEYOR_PULL_REQUEST_HEAD_REPO_BRANCH",
         "APPVEYOR_REPO_BRANCH", "APPVEYOR_REPO_TAG_NAME", "APPVEYOR_BUILD_FOLDER",
         "APPVEYOR_BUILD_NUMBER", "APPVEYOR_REPO_COMMIT_MESSAGE",
         "APPVEYOR_REPO_COMMIT_MESSAGE_EXTENDED", "APPVEYOR_REPO_COMMIT_AUTHOR",
         "APPVEYOR_REPO_COMMIT_AUTHOR_EMAIL"}
      [] key = "TF_BUILD" ->
        {"SYSTEM_TEAMFOUNDATIONSERVERURI", "SYSTEM_TEAMPROJECTID", "BUILD_BUILDID",
         "SYSTEM_JOBID", "SYSTEM_TASKINSTANCEID", "SYSTEM_PULLREQUEST_SOURCEBRANCH",
         "BUILD_SOURCEBRANCH", "BUILD_SOURCEBRANCHNAME", "BUILD_SOURCESDIRECTORY",
         "BUILD_DEFINITIONNAME", "SYSTEM_STAGEDISPLAYNAME", "SYSTEM_JOBDISPLAYNAME",
         "SYSTEM_PULLREQUEST_SOURCEREPOSITORYURI", "BUILD_REPOSITORY_URI",
         "SYSTEM_PULLREQUEST_SOURCECOMMITID", "BUILD_SOURCEVERSION",
         "BUILD_SOURCEVERSIONMESSAGE", "BUILD_REQUESTEDFORID",
         "BUILD_REQUESTEDFOREMAIL"}
      [] key = "BITBUCKET_COMMIT" ->
        {"BITBUCKET_REPO_FULL_NAME", "BITBUCKET_BUILD_NUMBER",
         "BITBUCKET_GIT_SSH_ORIGIN", "BITBUCKET_COMMIT", "BITBUCKET_BRANCH",
         "BITBUCKET_TAG", "BITBUCKET_CLONE_DIR", "BITBUCKET_PIPELINE_UUID"}
      [] key = "BUDDY" ->
        {"BUDDY_PIPELINE_ID", "BUDDY_EXECUTION_ID", "BUDDY_PIPELINE_NAME",
         "BUDDY_EXECUTION_URL", "BUDDY_EXECUTION_REVISION", "BUDDY_SCM_URL",
         "BUDDY_EXECUTION_BRANCH", "BUDDY_EXECUTION_TAG",
         "BUDDY_EXECUTION_REVISION_MESSAGE", "BUDDY_EXECUTION_REVISION_COMMITTER_NAME",
         "BUDDY_EXECUTION_REVISION_COMMITTER_EMAIL"}
      [] key = "BUILDKITE" ->
        {"BUILDKITE_BRANCH", "BUILDKITE_COMMIT", "BUILDKITE_REPO", "BUILDKITE_TAG",
         "BUILDKITE_BUILD_ID", "BUILDKITE_PIPELINE_SLUG", "BUILDKITE_BUILD_NUMBER",
         "BUILDKITE_BUILD_URL", "BUILDKITE_JOB_ID", "BUILDKITE_BUILD_CHECKOUT_PATH",
         "BUILDKITE_MESSAGE", "BUILDKITE_BUILD_AUTHOR", "BUILDKITE_BUILD_AUTHOR_EMAIL"}
      [] key = "CIRCLECI" ->
        {"CIRCLE_REPOSITORY_URL", "CIRCLE_SHA1", "CIRCLE_TAG", "CIRCLE_BRANCH",
         "CIRCLE_WORKING_DIRECTORY", "CIRCLE_WORKFLOW_ID", "CIRCLE_PROJECT_REPONAME",
         "CIRCLE_BUILD_NUM", "CIRCLE_JOB", "CIRCLE_BUILD_URL"}
      [] key = "GITHUB_SHA" ->
        {"GITHUB_HEAD_REF", "GITHUB_REF", "GITHUB_SERVER_URL", "GITHUB_REPOSITORY",
         "GITHUB_RUN_ID", "GITHUB_SHA", "GITHUB_WORKSPACE", "GITHUB_RUN_NUMBER",
         "GITHUB_WORKFLOW", "GITHUB_JOB", "GITHUB_RUN_ATTEMPT"}
      [] key = "GITLAB_CI" ->
        {"CI_PIPELINE_URL", "CI_REPOSITORY_URL", "CI_COMMIT_SHA", "CI_COMMIT_BRANCH",
         "CI_COMMIT_REF_NAME", "CI_COMMIT_TAG", "CI_PROJECT_DIR", "CI_PIPELINE_ID",
         "CI_PROJECT_PATH", "CI_PIPELINE_IID", "CI_JOB_URL", "CI_JOB_NAME",
         "CI_JOB_STAGE", "CI_COMMIT_MESSAGE", "CI_COMMIT_AUTHOR",
         "CI_COMMIT_TIMESTAMP", "CI_PROJECT_URL", "CI_JOB_ID"}
      [] key = "JENKINS_URL" ->
        {"GIT_URL", "GIT_URL_1", "GIT_COMMIT", "GIT_BRANCH", "JOB_NAME", "WORKSPACE",
         "BUILD_TAG", "BUILD_NUMBER", "BUILD_URL", "DD_CUSTOM_TRACE_ID"}
      [] key = "TEAMCITY_VERSION" ->
        {"BUILD_VCS_URL", "BUILD_VCS_NUMBER", "BUILD_CHECKOUTDIR", "BUILD_ID",
         "BUILD_NUMBER", "SERVER_URL"}
      [] key = "TRAVIS" ->
        {"TRAVIS_PULL_REQUEST_SLUG", "TRAVIS_REPO_SLUG", "TRAVIS_COMMIT", "TRAVIS_TAG",
         "TRAVIS_PULL_REQUEST_BRANCH", "TRAVIS_BRANCH", "TRAVIS_BUILD_DIR",
         "TRAVIS_BUILD_ID", "TRAVIS_BUILD_NUMBER", "TRAVIS_BUILD_WEB_URL",
         "TRAVIS_JOB_WEB_URL", "TRAVIS_COMMIT_MESSAGE"}
      [] key = "BITRISE_BUILD_SLUG" ->
        {"GIT_REPOSITORY_URL", "BITRISE_GIT_COMMIT", "GIT_CLONE_COMMIT_HASH",
         "BITRISEIO_GIT_BRANCH_DEST", "BITRISE_GIT_BRANCH", "BITRISE_GIT_TAG",
         "BITRISE_SOURCE_DIR", "BITRISE_BUILD_SLUG", "BITRISE_TRIGGERED_WORKFLOW_ID",
         "BITRISE_BUILD_NUMBER", "BITRISE_BUILD_URL", "BITRISE_GIT_MESSAGE"}

\* ------------------------------------------------- init.go: classification
\* Frames of a captured stack trace, as getStacktrace prints frame.Function.
FrFailNow == <<"testing.(*common).", "Fail", "Now">>
FrFatal   == <<"testing.(*common).", "Fatal">>
FrFatalf  == <<"testing.(*common).", "Fatal", "f">>
FrFail    == <<"testing.(*common).", "Fail">>
FrRunner  == <<"testing.", "tRunner">>
Frames    == {FrFailNow, FrFatal, FrFatalf, FrFail, FrRunner}

failNowRegex == <<"testing.(*common).", "Fail", "Now">>
fatalRegex   == <<"testing.(*common).", "Fatal">>

\* regexp.MatchString on the trace text: some frame line holds the pattern.
MatchString(re, stackTrace) == \E fr \in stackTrace : Contains(fr, re)

\* A pattern that stops at "Fail" and so takes a t.Fail frame for FailNow.
isFailNowLoose(stackTrace) ==
    MatchString(<<"testing.(*common).", "Fail">>, stackTrace)

isFailNow(stackTrace) == MatchString(failNowRegex, stackTrace)

isFatal(stackTrace) == MatchString(fatalRegex, stackTrace)

\* Panic values.  PanicNil is panic(nil): go.mod states go 1.14, where
\* recover() stops such a panic and returns nil.
NoPanic  == [on |-> FALSE, kind |-> "none",   text |-> <<>>]
PanicNil == [on |-> TRUE,  kind |-> "nil",    text |-> <<>>]
PanicStr == [on |-> TRUE,  kind |-> "string", text |-> <<"boom">>]
PanicErr == [on |-> TRUE,  kind |-> "error",  text |-> <<"unexpected", " ", "EOF">>]
Nil      == [kind |-> "nil", text |-> <<>>]

\* recover(), called directly by the deferred finish function.
Recover(p) == IF p.on THEN [kind |-> p.kind, text |-> p.text] ELSE Nil

\* fmt.Sprint(r)
Sprint(r) == IF r.kind = "nil" THEN <<"<nil>">> ELSE r.text

\* span.SetTag
SetTag(tags, k, v) == Put(tags, k, v)

\* Tag keys of the span (internal/constants and ddtrace/ext names).
TestStatus == "test.status"
ExtError   == "error"
ErrorMsg   == "error.msg"
ErrorStack == "error.stack"
ErrorType  == "error.type"

\* The SetTag calls of the finish function, in program order, for the state
\* tb of the testing.TB and the value r that recover() returned.
PanicWrites(tb, r) ==
    << <<TestStatus, "fail">>,
       <<ExtError, TRUE>>,
       <<ErrorMsg, Sprint(r)>>,
       <<ErrorStack, tb.stack>>,
       <<ErrorType, "panic">> >>

FailWrites(tb) ==
    << <<TestStatus, "fail">>, <<ErrorMsg, tb.msg>> >>
    \o (IF isFailNow(tb.stack)
        THEN << <<ErrorStack, tb.stack>>, <<ErrorType, "FailNow">> >>
             \o (IF isFatal(tb.stack) THEN << <<ErrorType, "Fatal">> >> ELSE <<>>)
        ELSE <<>>)

NormalWrites(tb) ==
    << <<ExtError, tb.failed>> >>
    \o (IF tb.failed THEN FailWrites(tb)
        ELSE IF tb.skipped THEN << <<TestStatus, "skip">> >>
        ELSE << <<TestStatus, "pass">> >>)

CleanupWrites(tb, r) ==
    IF r.kind # "nil" THEN PanicWrites(tb, r) ELSE NormalWrites(tb)

RECURSIVE ApplyWrites(_, _)
ApplyWrites(tags, ws) ==
    IF ws = <<>> THEN tags
    ELSE ApplyWrites(SetTag(tags, ws[1][1], ws[1][2]), Tail(ws))

WriteKeys(ws) == [i \in 1..Len(ws) |-> <<"SetTag", ws[i][1]>>]

\* ------------------------------------------------------- init.go: processes
UnitId(u) == <<"unit", u>>
MainId    == <<"main", 0>>
SignalId  == <<"signal", 0>>

\* What the test body can leave behind for the finish function: the flags of
\* the testing.TB, its failure message, the stack the runtime will report and
\* the panic being unwound, if any.
TBStates ==
    [failed : BOOLEAN, skipped : BOOLEAN, msg : {<<>>, <<"want", " ", "1">>},
     stack : SUBSET Frames, pan : {NoPanic, PanicNil, PanicStr, PanicErr}]

\* The bodies the shutdown model distinguishes: one that returns and one
\* that panics.
RunTBStates ==
    {tb \in TBStates : /\ ~tb.failed /\ ~tb.skipped /\ tb.msg = <<>>
                       /\ tb.stack = {FrRunner} /\ tb.pan \in {NoPanic, PanicStr}}

IdleTB == [failed |-> FALSE, skipped |-> FALSE, msg |-> <<>>, stack |-> {}, pan |-> NoPanic]

IdleUnit ==
    [pc |-> "idle", tb |-> IdleTB, span |-> NoTags, finished |-> 0,
     ev |-> <<>>, r |-> Nil, raised |-> Nil, swallowed |-> FALSE]

NewSink ==
    [started |-> FALSE, flushCalls |-> 0, stopCalls |-> 0, inFlush |-> {},
     exitBegun |-> FALSE, flushAfterStop |-> FALSE,
     emergencyAfterExit |-> {}, emergencyOverlap |-> {}, lateFinish |-> {}]

InitLife ==
    /\ unit = [u \in Units |-> IdleUnit]
    /\ sink = NewSink
    /\ mainpc = "init"
    /\ sigpc = "off"
    /\ proc = "alive"

\* tracer.Flush is entered by caller id.
SinkFlushCall(s, id, isExit) ==
    [s EXCEPT !.flushCalls = @ + 1,
              !.inFlush = @ \cup {id},
              !.flushAfterStop = @ \/ s.stopCalls > 0,
              !.exitBegun = @ \/ isExit,
              !.emergencyAfterExit =
                  IF ~isExit /\ s.exitBegun THEN @ \cup {id} ELSE @,
              !.emergencyOverlap =
                  IF isExit THEN @ \cup {x \in s.inFlush : x[1] = "unit"} ELSE @]

SinkFlushReturn(s, id) == [s EXCEPT !.inFlush = @ \ {id}]

SinkStop(s) == [s EXCEPT !.stopCalls = @ + 1]

\* StartTestWithContext: the span is opened with its start tags.
StartTest(u) ==
    /\ proc = "alive"
    /\ unit[u].pc = "idle"
    /\ \E kind \in {"test", "benchmark"} :
          unit' = [unit EXCEPT ![u].pc = "running",
                               ![u].span = ApplyWrites(NoTags,
                                   << <<"test.name", <<"TestX">> >>,
                                      <<"test.framework", <<"golang.org/pkg/testing">> >>,
                                      <<"test.type", kind>> >>)]
    /\ UNCHANGED <<sink, mainpc, sigpc, proc, tagVars, refVars>>

\* Control leaves the test body; the deferred finish function is next.
BodyLeaves(u, States) ==
    /\ proc = "alive"
    /\ unit[u].pc = "running"
    /\ \E tb \in States : unit' = [unit EXCEPT ![u].pc = "leaving", ![u].tb = tb]
    /\ UNCHANGED <<sink, mainpc, sigpc, proc, tagVars, refVars>>

\* cleanup, lines 139-182: recover, classify, tag, span.Finish; it returns
\* here when r == nil.
Cleanup(u) ==
    /\ proc = "alive"
    /\ unit[u].pc = "leaving"
    /\ LET tb == unit[u].tb
           r  == Recover(tb.pan)
           ws == CleanupWrites(tb, r)
       IN /\ unit' = [unit EXCEPT
                ![u].pc = IF r.kind # "nil" THEN "finished" ELSE "done",
                ![u].r = r,
                ![u].span = ApplyWrites(@, ws),
                ![u].finished = @ + 1,
                ![u].ev = @ \o WriteKeys(ws) \o << <<"Finish", "">> >>,
                ![u].swallowed = tb.pan.on /\ r.kind = "nil"]
          /\ sink' = [sink EXCEPT !.lateFinish =
                        IF sink.stopCalls > 0 THEN @ \cup {u} ELSE @]
    /\ UNCHANGED <<mainpc, sigpc, proc, tagVars, refVars>>

\* cleanup, line 187: tracer.Flush() is called ...
EmergencyFlushCall(u) ==
    /\ proc = "alive"
    /\ unit[u].pc = "finished"
    /\ unit' = [unit EXCEPT ![u].pc = "flushing", ![u].ev = @ \o << <<"Flush", "">> >>]
    /\ sink' = SinkFlushCall(sink, UnitId(u), FALSE)
    /\ UNCHANGED <<mainpc, sigpc, proc, tagVars, refVars>>

\* ... and returns.
EmergencyFlushReturn(u) ==
    /\ proc = "alive"
    /\ unit[u].pc = "flushing"
    /\ unit' = [unit EXCEPT ![u].pc = "flushed"]
    /\ sink' = SinkFlushReturn(sink, UnitId(u))
    /\ UNCHANGED <<mainpc, sigpc, proc, tagVars, refVars>>

\* cleanup, line 189: tracer.Stop()
EmergencyStop(u) ==
    /\ proc = "alive"
    /\ unit[u].pc = "flushed"
    /\ unit' = [unit EXCEPT ![u].pc = "stopped", ![u].ev = @ \o << <<"Stop", "">> >>]
    /\ sink' = SinkStop(sink)
    /\ UNCHANGED <<mainpc, sigpc, proc, tagVars, refVars>>

\* cleanup, line 190: panic(r)
Repanic(u) ==
    /\ proc = "alive"
    /\ unit[u].pc = "stopped"
    /\ unit' = [unit EXCEPT ![u].pc = "repanicked", ![u].raised = unit[u].r,
                             ![u].ev = @ \o << <<"panic", "">> >>]
    /\ UNCHANGED <<sink, mainpc, sigpc, proc, tagVars, refVars>>


\* The runtime ends the process after a panic left the test goroutine.
Crash ==
    /\ proc = "alive"
    /\ \E u \in Units : unit[u].pc = "repanicked"
    /\ proc' = "crashed"
    /\ UNCHANGED <<unit, sink, mainpc, sigpc, tagVars, refVars>>

\* Run, lines 57-73: tracer.Start, defer exitFunc, signal.Notify and the
\* listener goroutine; m.Run is entered.
RunStart ==
    /\ proc = "alive"
    /\ mainpc = "init"
    /\ mainpc' = "mrun"
    /\ sigpc' = "waiting"
    /\ sink' = [sink EXCEPT !.started = TRUE]
    /\ UNCHANGED <<unit, proc, tagVars, refVars>>

\* Run, line 76: m.Run returns once every test it started has finished; the
\* deferred exitFunc is next.
MRunReturns ==
    /\ proc = "alive"
    /\ mainpc = "mrun"
    /\ \A u \in Units : unit[u].pc \in {"idle", "done"}
    /\ mainpc' = "exitfunc"
    /\ UNCHANGED <<unit, sink, sigpc, proc, tagVars, refVars>>

\* exitFunc, line 60, run by the deferred call of Run.
MainFlushCall ==
    /\ proc = "alive"
    /\ mainpc = "exitfunc"
    /\ mainpc' = "flushing"
    /\ sink' = SinkFlushCall(sink, MainId, TRUE)
    /\ UNCHANGED <<unit, sigpc, proc, tagVars, refVars>>

MainFlushReturn ==
    /\ proc = "alive"
    /\ mainpc = "flushing"
    /\ mainpc' = "flushed"
    /\ sink' = SinkFlushReturn(sink, MainId)
    /\ UNCHANGED <<unit, sigpc, proc, tagVars, refVars>>

\* exitFunc, line 62; Run returns m.Run's code.
MainStop ==
    /\ proc = "alive"
    /\ mainpc = "flushed"
    /\ mainpc' = "returned"
    /\ sink' = SinkStop(sink)
    /\ UNCHANGED <<unit, sigpc, proc, tagVars, refVars>>

\* The caller of Run leaves main with the returned code.
MainExit ==
    /\ proc = "alive"
    /\ mainpc = "returned"
    /\ proc' = "exited"
    /\ UNCHANGED <<unit, sink, mainpc, sigpc, tagVars, refVars>>

\* Run, line 70: SIGINT or SIGTERM is delivered to the listener.
SignalArrives ==
    /\ proc = "alive"
    /\ sigpc = "waiting"
    /\ sigpc' = "exitfunc"
    /\ UNCHANGED <<unit, sink, mainpc, proc, tagVars, refVars>>

\* exitFunc, line 60, run by the listener (line 71).
SignalFlushCall ==
    /\ proc = "alive"
    /\ sigpc = "exitfunc"
    /\ sigpc' = "flushing"
    /\ sink' = SinkFlushCall(sink, SignalId, TRUE)
    /\ UNCHANGED <<unit, mainpc, proc, tagVars, refVars>>

SignalFlushReturn ==
    /\ proc = "alive"
    /\ sigpc = "flushing"
    /\ sigpc' = "flushed"
    /\ sink' = SinkFlushReturn(sink, SignalId)
    /\ UNCHANGED <<unit, mainpc, proc, tagVars, refVars>>

SignalStop ==
    /\ proc = "alive"
    /\ sigpc = "flushed"
    /\ sigpc' = "stopped"
    /\ sink' = SinkStop(sink)
    /\ UNCHANGED <<unit, mainpc, proc, tagVars, refVars>>

\* Run, line 72: os.Exit(1)
SignalExit ==
    /\ proc = "alive"
    /\ sigpc = "stopped"
    /\ proc' = "exited"
    /\ UNCHANGED <<unit, sink, mainpc, sigpc, tagVars, refVars>>

\* m.Run starts the tests; each test goroutine runs its unit.
RunTest(u) == mainpc = "mrun" /\ StartTest(u)

InitTagsIdle ==
    /\ env = NoTags
    /\ gpc = "idle"
    /\ raw = NoTags
    /\ result = NoTags

NoUrl == [scheme |-> <<>>, userinfo |-> <<>>, rest |-> <<>>]

InitUrlIdle ==
    /\ urlIn = NoUrl
    /\ urlOut = <<>>

InitNormIdle ==
    /\ normIn = NoTags
    /\ normOut = <<>>

InitRefIdle ==
    /\ refIn = <<>>
    /\ refOut = <<>>
    /\ InitUrlIdle
    /\ InitNormIdle

\* One test unit, every state its body can leave behind.
InitUnit == InitLife /\ InitTagsIdle /\ InitRefIdle

NextUnit ==
    \/ StartTest(1)
    \/ BodyLeaves(1, TBStates)
    \/ Cleanup(1)
    \/ EmergencyFlushCall(1)
    \/ EmergencyFlushReturn(1)
    \/ EmergencyStop(1)
    \/ Repanic(1)

SpecUnit == InitUnit /\ [][NextUnit]_vars

\* A process started with Run: the suite's units, the deferred exitFunc and
\* the signal listener, interleaved at the calls on the tracer.
InitRun == InitLife /\ InitTagsIdle /\ InitRefIdle

NextRun ==
    \/ RunStart
    \/ \E u \in Units : RunTest(u)
    \/ \E u \in Units : BodyLeaves(u, RunTBStates)
    \/ \E u \in Units : Cleanup(u)
    \/ \E u \in Units : EmergencyFlushCall(u)
    \/ \E u \in Units : EmergencyFlushReturn(u)
    \/ \E u \in Units : EmergencyStop(u)
    \/ \E u \in Units : Repanic(u)
    \/ Crash
    \/ MRunReturns
    \/ MainFlushCall
    \/ MainFlushReturn
    \/ MainStop
    \/ MainExit
    \/ SignalArrives
    \/ SignalFlushCall
    \/ SignalFlushReturn
    \/ SignalStop
    \/ SignalExit

SpecRun == InitRun /\ [][NextRun]_vars


\* The override variables of replaceWithUserSpecificTags.
UserVars == {UserTags[i][2] : i \in 1..Len(UserTags)}

\* A random map order visits the registry in any order; only the keys whose
\* variable is present reach `tags = provider()`.
Orders(S) ==
    {o \in [1..Cardinality(S) -> S] : \A i, j \in 1..Cardinality(S) : o[i] = o[j] => i = j}

\* The loop with another body: each output is merged into the last.
RECURSIVE providerLoopMerged(_, _, _)
providerLoopMerged(acc, order, outs) ==
    IF order = <<>> \/ ~acc.ok THEN acc
    ELSE LET out == outs[Head(order)]
         IN providerLoopMerged(IF out.ok THEN Ok(out.tags @@ acc.tags) ELSE out,
                               Tail(order), outs)

\* GetProviderTags, lines 46-52: tags = provider() for each present key in
\* order; a fault of an extractor ends the function.  outs[key] is what
\* providers[key]() answers in this environment.
RECURSIVE providerLoop(_, _, _)
providerLoop(acc, order, outs) ==
    IF order = <<>> \/ ~acc.ok THEN acc
    ELSE providerLoop(outs[Head(order)], Tail(order), outs)

Present == {k \in Triggers : LookupEnv(k)}

\* What the loop can leave in tags, over the orders of the map iteration.
LoopResults(outs) == {providerLoop(Ok(NoTags), order, outs) : order \in Orders(Present)}

\* Home directories homedir.Dir can answer; <<>> stands for its error.
HomeDirs == {<<>>, <<"/", "home", "/", "ci">>}

\* GetProviderTags, lines 54-71, from the tags the loop left.
Returns(tags, normalized) ==
    \E home \in HomeDirs :
        /\ raw' = tags
        /\ result' = removeEmpty(expandWorkspace(normalized, home))
        /\ gpc' = "done"

\* GetProviderTags, lines 45-72.
GetProviderTags ==
    /\ gpc = "start"
    /\ \E out \in LoopResults([key \in Present |-> providers(key)]) :
          IF out.ok
          THEN Returns(out.tags, normalizeTags(replaceWithUserSpecificTags(out.tags)))
          ELSE /\ raw' = NoTags
               /\ result' = NoTags
               /\ gpc' = "panicked"
    /\ UNCHANGED <<env, lifeVars, refVars>>

\* ------------------------------------------------------ environments tried
RefVars ==
    {"APPVEYOR_PULL_REQUEST_HEAD_REPO_BRANCH", "APPVEYOR_REPO_BRANCH",
     "APPVEYOR_REPO_TAG_NAME", "SYSTEM_PULLREQUEST_SOURCEBRANCH", "BUILD_SOURCEBRANCH",
     "BUILD_SOURCEBRANCHNAME", "BITRISEIO_GIT_BRANCH_DEST", "BITRISE_GIT_BRANCH",
     "BITRISE_GIT_TAG", "BITBUCKET_BRANCH", "BITBUCKET_TAG", "BUDDY_EXECUTION_BRANCH",
     "BUDDY_EXECUTION_TAG", "BUILDKITE_BRANCH", "BUILDKITE_TAG", "CIRCLE_TAG",
     "CIRCLE_BRANCH", "GITHUB_HEAD_REF", "GITHUB_REF", "CI_COMMIT_BRANCH",
     "CI_COMMIT_REF_NAME", "CI_COMMIT_TAG", "GIT_BRANCH", "TRAVIS_TAG",
     "TRAVIS_PULL_REQUEST_BRANCH", "TRAVIS_BRANCH", "DD_GIT_BRANCH", "DD_GIT_TAG"}

UrlVars ==
    {"SYSTEM_PULLREQUEST_SOURCEREPOSITORYURI", "BUILD_REPOSITORY_URI",
     "GIT_REPOSITORY_URL", "BITBUCKET_GIT_SSH_ORIGIN", "BUDDY_SCM_URL", "BUILDKITE_REPO",
     "CIRCLE_REPOSITORY_URL", "CI_REPOSITORY_URL", "GIT_URL", "GIT_URL_1",
     "BUILD_VCS_URL", "DD_GIT_REPOSITORY_URL"}

PathVars ==
    {"APPVEYOR_BUILD_FOLDER", "BUILD_SOURCESDIRECTORY", "BITRISE_SOURCE_DIR",
     "BITBUCKET_CLONE_DIR", "BUILDKITE_BUILD_CHECKOUT_PATH", "CIRCLE_WORKING_DIRECTORY",
     "GITHUB_WORKSPACE", "CI_PROJECT_DIR", "WORKSPACE", "BUILD_CHECKOUTDIR",
     "TRAVIS_BUILD_DIR"}

SlugVars ==
    {"APPVEYOR_REPO_NAME", "GITHUB_REPOSITORY", "TRAVIS_REPO_SLUG",
     "BITBUCKET_REPO_FULL_NAME"}

RefValues ==
    {<<"main">>, <<"refs", "/", "heads", "/", "main">>, <<"refs", "/", "tags", "/", "v1">>,
     <<"origin", "/">>}

UrlValues ==
    {<<"https://", "host", "/", "repo", ".git">>,
     <<"https://", "user", ":", "pw", "@", "host", "/", "repo", ".git">>}

PathValues == {<<"/", "ws">>, <<"~", "/", "ws">>, <<"~", "ws">>}

\* The values tried for variable k when it is set.
Dom(k) ==
    IF k \in Triggers
    THEN (IF k \in Reads(k) THEN {<<>>, <<"abc123">>} ELSE {<<"true">>})
    ELSE IF k \in RefVars THEN RefValues
    ELSE IF k \in UrlVars THEN UrlValues
    ELSE IF k \in PathVars THEN PathValues
    ELSE IF k \in SlugVars THEN {<<"org", "/", "repo">>}
    ELSE IF k = "APPVEYOR_REPO_PROVIDER" THEN {<<"github">>, <<"gitlab">>}
    ELSE IF k = "BITBUCKET_PIPELINE_UUID" THEN {<<"{", "uuid", "}">>, <<"{", "}">>}
    ELSE IF k = "CI_COMMIT_AUTHOR" THEN {<<"Jane", " ", "<", "jane@x", ">">>, <<"Jane">>}
    ELSE IF k = "JOB_NAME"
         THEN {<<"job", "/", "main">>, <<"job", "/", "KEY", "=", "v", "/", "main">>}
    ELSE IF k = "CI_PIPELINE_URL"
         THEN {<<"https://", "gl", "/", "org", "/", "-", "/", "pipelines", "/", "1">>}
    ELSE IF k = "GITHUB_SERVER_URL" THEN {<<"https://", "ghe", "/">>}
    ELSE IF k = "TRAVIS_PULL_REQUEST_SLUG" THEN {<<" ">>, <<"fork", "/", "repo">>}
    ELSE {<<"x">>}

\* The variables the program can read when the triggers T are present.
Readable(T) == (UserVars \cup UNION {Reads(t) : t \in T}) \ Triggers

RECURSIVE SetToSeq(_)
SetToSeq(S) ==
    IF S = {} THEN <<>>
    ELSE LET x == CHOOSE y \in S : TRUE IN <<x>> \o SetToSeq(S \ {x})

\* The variables the extractors of the triggers ts read, each once.
RECURSIVE ReadSeq(_, _)
ReadSeq(ts, seen) ==
    IF ts = <<>> THEN <<>>
    ELSE LET new == Reads(Head(ts)) \ seen
         IN SetToSeq(new) \o ReadSeq(Tail(ts), seen \cup new)

TriggerSeq == SetToSeq(Triggers)

\* Every variable of the model, the triggers first.
VarSeq == TriggerSeq \o SetToSeq(UserVars) \o ReadSeq(TriggerSeq, Triggers \cup UserVars)

Rank == [k \in Triggers \cup Readable(Triggers) |->
            CHOOSE i \in 1..Len(VarSeq) : VarSeq[i] = k]

LastRank(e) ==
    IF DOMAIN e = {} THEN 0
    ELSE CHOOSE i \in {Rank[k] : k \in DOMAIN e} : \A k \in DOMAIN e : Rank[k] <= i

\* The environment the process is started in is put together: one more
\* variable is set, a trigger or a variable the program reads under the
\* triggers that are set.  At most MaxEnv variables are set, in the order of
\* VarSeq, so that each environment is built once.
Setenv ==
    /\ gpc = "start"
    /\ Cardinality(DOMAIN env) < MaxEnv
    /\ LET last == LastRank(env)
       IN \E k \in {x \in Triggers \cup Readable(Present) : Rank[x] > last} :
             \E v \in Dom(k) : env' = Put(env, k, v)
    /\ UNCHANGED <<gpc, raw, result, lifeVars, refVars>>

InitLifeIdle ==
    /\ unit = [u \in Units |-> IdleUnit]
    /\ sink = NewSink
    /\ mainpc = "idle"
    /\ sigpc = "idle"
    /\ proc = "alive"

InitTags ==
    /\ env = NoTags
    /\ gpc = "start"
    /\ raw = NoTags
    /\ result = NoTags
    /\ InitLifeIdle
    /\ InitRefIdle

NextTags ==
    \/ Setenv
    \/ GetProviderTags

SpecTags == InitTags /\ [][NextTags]_vars

\* ------------------------------------------- normalizeRef on reference names
\* The prefixes the three patterns of normalizeRef look for.
Prefixes ==
    {<<"refs", "/">>, <<"refs", "/", "heads", "/">>, <<"origin", "/">>, <<"tags", "/">>}

Names == {<<"main">>, <<"v1">>}

\* A name with at most n prefixes in front of it.
RECURSIVE RefsUpTo(_)
RefsUpTo(n) ==
    IF n = 0 THEN Names
    ELSE RefsUpTo(n - 1) \cup {p \o r : p \in Prefixes, r \in RefsUpTo(n - 1)}

InitRef ==
    /\ refIn \in RefsUpTo(MaxPrefix)
    /\ refOut = <<>>
    /\ InitUrlIdle
    /\ InitNormIdle
    /\ InitLifeIdle
    /\ InitTagsIdle

\* normalizeRef(refIn)
NormalizeRef ==
    /\ refOut = <<>>
    /\ refOut' = <<normalizeRef(refIn)>>
    /\ UNCHANGED <<refIn, urlIn, urlOut, normIn, normOut, lifeVars, tagVars>>

\* normalizeRef of the value normalizeRef returned
NormalizeRefAgain ==
    /\ Len(refOut) = 1
    /\ refOut' = Append(refOut, normalizeRef(refOut[1]))
    /\ UNCHANGED <<refIn, urlIn, urlOut, normIn, normOut, lifeVars, tagVars>>

NextRef ==
    \/ NormalizeRef
    \/ NormalizeRefAgain

SpecRef == InitRef /\ [][NextRef]_vars

\* ------------------------------------- filterSensitiveInfo on repository URLs
\* scheme, "://" included
UrlSchemes == {<<"https://">>, <<"http://">>, <<"ssh", ":", "/", "/">>}

\* user information in front of the host, <<>> for none
UserInfos == {<<>>, <<"user">>, <<"user", ":", "pw">>, <<"user", ":", "p", "@", "ss">>}

\* path segments: a name, a name with an "@", a URL quoted in the path
Segments == {<<"repo", ".git">>, <<"a", "@", "b">>, <<"https://", "u", "@", "h">>}

\* A path of at most n segments.
RECURSIVE Paths(_)
Paths(n) ==
    IF n = 0 THEN {<<>>}
    ELSE Paths(n - 1) \cup {<<"/">> \o g \o q : g \in Segments, q \in Paths(n - 1)}

\* The string of a URL given in its parts.
UrlString(u) ==
    u.scheme \o (IF u.userinfo = <<>> THEN <<>> ELSE u.userinfo \o <<"@">>) \o u.rest

InitUrl ==
    /\ urlIn \in [scheme : UrlSchemes, userinfo : UserInfos,
                 rest : {<<"host">> \o q : q \in Paths(MaxSegs)}]
    /\ urlOut = <<>>
    /\ refIn = <<>>
    /\ refOut = <<>>
    /\ InitNormIdle
    /\ InitLifeIdle
    /\ InitTagsIdle

\* filterSensitiveInfo(urlIn)
FilterSensitiveInfo ==
    /\ urlOut = <<>>
    /\ urlIn # NoUrl
    /\ urlOut' = <<filterSensitiveInfo(UrlString(urlIn))>>
    /\ UNCHANGED <<urlIn, refIn, refOut, normIn, normOut, lifeVars, tagVars>>

NextUrl ==
    \/ FilterSensitiveInfo

SpecUrl == InitUrl /\ [][NextUrl]_vars

\* ------------------------------------------ normalizeTags on a tag mapping
\* Values of the tag field when normalizeTags is entered; the key can be
\* missing as well.
TagFieldValues == {<<>>, <<"v0">>, <<"tags", "/", "v0">>}

\* Mappings with a branch reference and, or not, a tag field.
NormInputs ==
    {GitBranch :> b : b \in RefsUpTo(MaxPrefix)}
    \cup {GitBranch :> b @@ GitTag :> t : b \in RefsUpTo(MaxPrefix), t \in TagFieldValues}

InitNorm ==
    /\ normIn \in NormInputs
    /\ normOut = <<>>
    /\ refIn = <<>>
    /\ refOut = <<>>
    /\ InitUrlIdle
    /\ InitLifeIdle
    /\ InitTagsIdle

\* normalizeTags(normIn)
NormalizeTags ==
    /\ normOut = <<>>
    /\ normIn # NoTags
    /\ normOut' = <<normalizeTags(normIn)>>
    /\ UNCHANGED <<normIn, refIn, refOut, urlIn, urlOut, lifeVars, tagVars>>

NextNorm ==
    \/ NormalizeTags

SpecNorm == InitNorm /\ [][NextNorm]_vars

\* ------------------------------------------------------------------ claims
\* The finish function of unit u has run span.Finish.
Finalized(u) ==
    unit[u].pc \in {"done", "finished", "flushing", "flushed", "stopped", "repanicked"}

\* The finish function of unit u is over: it returned or re-raised.
FinishOver(u) == unit[u].pc \in {"done", "repanicked"}

CountOf(seq, e) == Cardinality({i \in 1..Len(seq) : seq[i] = e})

StatusWrites(u) == CountOf(unit[u].ev, <<"SetTag", TestStatus>>)

\* C1: whichever way control left the body, one run of the finish function
\* writes the status once and calls span.Finish once; the status is fail when
\* a panic is being unwound, else fail when Failed(), else skip when
\* Skipped(), else pass; without a panic the function returns normally and
\* calls neither tracer.Flush nor tracer.Stop.
C1_OneStatusOneFinishByPrecedence ==
    \A u \in Units : FinishOver(u) =>
        LET tb == unit[u].tb IN
        /\ StatusWrites(u) = 1
        /\ unit[u].finished = 1
        /\ CountOf(unit[u].ev, <<"Finish", "">>) = 1
        /\ unit[u].span[TestStatus] =
              (IF tb.pan.on THEN "fail"
               ELSE IF tb.failed THEN "fail"
               ELSE IF tb.skipped THEN "skip"
               ELSE "pass")
        /\ ~tb.pan.on =>
              /\ unit[u].pc = "done"
              /\ CountOf(unit[u].ev, <<"Flush", "">>) = 0
              /\ CountOf(unit[u].ev, <<"Stop", "">>) = 0

\* C2: when a panic with value r is being unwound through the finish
\* function, the record gets status fail, error true, type "panic", r's
\* message and the stack; then span.Finish, tracer.Flush, tracer.Stop and
\* panic(r) happen in this order, and the function never returns normally.
C2_PanicFinalizedFlushedStoppedReraised ==
    \A u \in Units : (unit[u].tb.pan.on /\ Finalized(u)) =>
        LET tb == unit[u].tb
            sp == unit[u].span
            ev == unit[u].ev
        IN
        /\ unit[u].pc # "done"
        /\ sp[TestStatus] = "fail"
        /\ sp[ExtError] = TRUE
        /\ sp[ErrorType] = "panic"
        /\ sp[ErrorMsg] = tb.pan.text
        /\ sp[ErrorStack] = tb.stack
        /\ unit[u].pc = "repanicked" =>
              /\ SubSeq(ev, Len(ev) - 3, Len(ev)) =
                    << <<"Finish", "">>, <<"Flush", "">>, <<"Stop", "">>, <<"panic", "">> >>
              /\ unit[u].raised = [kind |-> tb.pan.kind, text |-> tb.pan.text]

\* C3: for a unit flagged failed without a panic the error type depends on
\* the captured stack only: none without a FailNow frame, "FailNow" with a
\* FailNow frame and no Fatal frame, "Fatal" with both; the record is
\* finalized with status fail in each case.
C3_ErrorTypeFromStack ==
    \A u \in Units : (FinishOver(u) /\ ~unit[u].tb.pan.on /\ unit[u].tb.failed) =>
        LET st == unit[u].tb.stack
            sp == unit[u].span
            hasFailNow == FrFailNow \in st
            hasFatal == FrFatal \in st \/ FrFatalf \in st
        IN
        /\ unit[u].pc = "done"
        /\ unit[u].finished = 1
        /\ sp[TestStatus] = "fail"
        /\ ~hasFailNow => ErrorType \notin DOMAIN sp
        /\ (hasFailNow /\ ~hasFatal) => (ErrorType \in DOMAIN sp /\ sp[ErrorType] = "FailNow")
        /\ (hasFailNow /\ hasFatal) => (ErrorType \in DOMAIN sp /\ sp[ErrorType] = "Fatal")

\* C3 witness: a failed unit whose stack holds the Fatalf and FailNow frames
\* was finalized as Fatal, and one with a Fatal frame alone got no type.
C3_Witness ==
    /\ unit[1].pc = "done"
    /\ unit[1].tb.failed /\ ~unit[1].tb.pan.on
    /\ unit[1].tb.stack = {FrFailNow, FrFatalf, FrRunner}
    /\ unit[1].span[ErrorType] = "Fatal"

\* C4: over all interleavings of the deferred exitFunc, the listener's
\* exitFunc and a panicking unit's emergency flush/stop, tracer.Flush is
\* called at most once, tracer.Stop at most once, and Flush never after Stop.
C4_FlushStopOnce ==
    /\ sink.flushCalls <= 1
    /\ sink.stopCalls <= 1
    /\ ~sink.flushAfterStop

\* C5: an emergency flush of a panicking unit has returned before any
\* exitFunc calls tracer.Flush: none is entered after an exitFunc began and
\* none is in progress when an exitFunc begins.
C5_EmergencyFlushBeforeExitFunc ==
    /\ sink.emergencyAfterExit = {}
    /\ sink.emergencyOverlap = {}

\* An override variable with a value replaces tag k.
Overridden(k) ==
    \E i \in 1..Len(UserTags) : UserTags[i][1] = k /\ Getenv(UserTags[i][2]) # <<>>

\* C6: every key of the tag set GetProviderTags returns maps to a non-empty
\* string, and a tag the extractor left empty that no override variable and
\* no branch reference fills is absent from the result.
C6_NoEmptyValues ==
    gpc = "done" =>
        /\ \A k \in DOMAIN result : result[k] # <<>>
        /\ \A k \in DOMAIN raw :
              (raw[k] = <<>> /\ ~Overridden(k) /\ k # GitTag) => k \notin DOMAIN result

\* C6 witness: a call returned tags, one tag the extractor filled was emptied
\* by normalization and is absent, and one it left empty is absent too.
C6_Witness ==
    /\ gpc = "done"
    /\ result # NoTags
    /\ \E k \in DOMAIN raw : raw[k] # <<>> /\ k \notin DOMAIN result
    /\ \E k \in DOMAIN raw : raw[k] = <<>> /\ k \notin DOMAIN result

\* C7 as stated: when DD_GIT_BRANCH is set to a non-empty value v the branch
\* tag of the returned tag set equals v.
C7_BranchEqualsOverride ==
    (gpc = "done" /\ Getenv("DD_GIT_BRANCH") # <<>>) =>
        /\ GitBranch \in DOMAIN result
        /\ result[GitBranch] = Getenv("DD_GIT_BRANCH")

\* C7 amended: when DD_GIT_BRANCH is set to a non-empty value v the branch
\* tag of the returned tag set equals normalizeRef(v), whatever branch the
\* extractor produced, and is absent when normalizeRef(v) is empty.
C7_BranchIsNormalizedOverride ==
    (gpc = "done" /\ Getenv("DD_GIT_BRANCH") # <<>>) =>
        LET n == normalizeRef(Getenv("DD_GIT_BRANCH"))
        IN IF n = <<>> THEN GitBranch \notin DOMAIN result
           ELSE GitBranch \in DOMAIN result /\ result[GitBranch] = n

\* C7 witness: the extractor produced the branch reference refs/tags/v1, the
\* override is refs/heads/main and the returned branch tag is main.
C7_Witness ==
    /\ gpc = "done"
    /\ Getenv("DD_GIT_BRANCH") = <<"refs", "/", "heads", "/", "main">>
    /\ TagOf(raw, GitBranch) = <<"refs", "/", "tags", "/", "v1">>
    /\ TagOf(result, GitBranch) = <<"main">>

\* C8: normalizeRef is idempotent on a name behind prefix tokens: applied to
\* its own result it returns that result.
C8_NormalizeRefIdempotent ==
    Len(refOut) = 2 => refOut[2] = refOut[1]

\* C9: the tags that enter normalization are the whole output of one
\* extractor whose trigger variable is present, whatever the order of the
\* registry, and the empty mapping when no trigger is present; a trigger set
\* to the empty string is present.  With GITHUB_SHA the only trigger present
\* and no override variable set the provider name returned is "github".
C9_OneExtractorOutput ==
    gpc = "done" =>
        /\ Present = {} => raw = NoTags
        /\ Present # {} => \E t \in Present : providers(t).ok /\ raw = providers(t).tags
        /\ (Present = {"GITHUB_SHA"} /\ DOMAIN env \cap UserVars = {}) =>
              TagOf(result, CIProviderName) = <<"github">>

\* C9 witness: GITHUB_SHA is set to the empty string, a second trigger is
\* present, and the tags that enter normalization are the GitHub extractor's.
C9_Witness ==
    /\ gpc = "done"
    /\ Cardinality(Present) >= 2
    /\ "GITHUB_SHA" \in DOMAIN env
    /\ env["GITHUB_SHA"] = <<>>
    /\ raw = extractGithubActions.tags
    /\ TagOf(result, CIProviderName) = <<"github">>

\* C10: with a trigger variable present and any of the variables its
\* extractor reads unset, GetProviderTags returns a tag set; it never faults.
C10_AbsenceNeverFaults ==
    gpc # "panicked"

\* C11: filterSensitiveInfo removes the user information and nothing else:
\* scheme://userinfo@rest becomes scheme://rest, and a URL without user
\* information is returned as it was given.
C11_OnlyCredentialsRemoved ==
    Len(urlOut) = 1 => urlOut[1] = urlIn.scheme \o urlIn.rest

\* C12: when the branch value handed to normalizeTags contains refs/tags,
\* origin/tags or refs/heads/tags, the tag field and the branch field hold
\* the same string afterwards, normalizeRef of that branch value.
C12_TagAndBranchAgree ==
    (Len(normOut) = 1 /\ IsTagRef(normIn[GitBranch])) =>
        /\ TagOf(normOut[1], GitBranch) = normalizeRef(normIn[GitBranch])
        /\ TagOf(normOut[1], GitTag) = normalizeRef(normIn[GitBranch])

\* C13: when DD_GIT_TAG is set to a non-empty value the tag field of the
\* returned tag set comes from that value (its normalizeRef), whatever
\* branch and tag the extractor supplied.
C13_TagOverrideKept ==
    (gpc = "done" /\ Getenv("DD_GIT_TAG") # <<>>) =>
        TagOf(result, GitTag) = normalizeRef(Getenv("DD_GIT_TAG"))

\* C14: with units running side by side and the signal listener, every
\* unit's span.Finish reaches a tracer that has not been stopped: no
\* tracer.Stop of a panicking unit or of an exitFunc comes before the
\* span.Finish of a unit that was still open.
C14_FinishBeforeStop ==
    sink.lateFinish = {}

===========================================================================
